---- MODULE Spec2Model ----
(***************************************************************************)
(* Taghra: the nearby-places pipeline and the points-gated search radius.  *)
(*                                                                         *)
(* Client side: getUnlockedRadius (utils/helpers.js) and the values the    *)
(* MapScreen derives from it on every render.                              *)
(* Server side: GET /api/places/nearby (routes/places.js, carried in       *)
(* setup-env.js), the two SQL definitions of get_nearby_places, and the    *)
(* mobile client's direct Supabase call.                                   *)
(* Around it: the rate limiter in front of the routes (SpecLimit), reviews *)
(* and the rating triggers (SpecReviews), calculateDistance of the location*)
(* hook (SpecDistance), and booking and cancelling appointments with their *)
(* point awards (SpecBooking), clients that retry after a 429 (SpecRetry), *)
(* the app's token-refreshing response interceptor (SpecRefresh,           *)
(* SpecRefreshLive) and the refresh-token and logout routes (SpecAuth).    *)
(* Each specification leaves the variables of the others at their idle     *)
(* values.                                                                 *)
(***************************************************************************)
EXTENDS Integers, Sequences, FiniteSets, Bags, TLC

VARIABLES
    user,          \* AuthContext user seen by MapScreen: <<>> or <<[points |-> n]>>
    radiusInfo,    \* MapScreen: getUnlockedRadius(userPoints) of the last render
    searchRadius,  \* MapScreen: radius drawn on the map at the last render
    placesTable,   \* rows of table places, in creation order
    req,           \* the /nearby request being answered: <<>> or <<[query, user]>>
    rpc,           \* arguments handed to Database.rpc('get_nearby_places'): <<>> or <<args>>
    places,        \* the handler's `places`: <<>> or <<rows returned by the rpc>>
    res,           \* the HTTP response on the wire: <<>> or <<response>>
    earlier,       \* rows the same request obtained the time before: <<>> or <<rows>>
    appResult,     \* result of the app's own getNearbyPlaces: <<>> or <<[call, rows]>>
    NODE_ENV,      \* process.env.NODE_ENV of the API server
    now,           \* Date.now() of the API server, in seconds
    rateLimit,     \* rateLimiter's table: client id -> <<>> or <<[count, startTime]>>
    awaiting,      \* /nearby handlers suspended at `await Database.rpc`: a bag of [ip, query]
    answer,        \* the response the last step sent: <<>> or <<[ip, query, earlier, res]>>
    recent,        \* per client, the arrival times of its requests of the last window
    dbSchema,      \* which SQL files set the database up: "supabase-schema" or "functions"
    reviews,       \* table reviews: review id -> <<>> or <<[place_id, user_id, rating]>>
    placeStats,    \* places.rating (in tenths) and places.review_count, by place
    reviewRes,     \* the answer to the last POST /:id/reviews: <<>> or <<[user, place, res]>>
    usersPoints,   \* users.points, by user
    points_history,\* table points_history: a sequence of [user_id, points, action]
    slotBooked,    \* doctor_availability.is_booked, by time slot
    appointments,  \* table appointments: a sequence of [user_id, time_slot, status]
    handlers,      \* appointment handlers suspended at an await: a bag of frames
    aptRes,        \* the answer an appointment handler sent in the last step: <<>> or <<answer>>
    point1,        \* calculateDistance: first argument of the forward call
    point2,        \* calculateDistance: second argument of the forward call
    forward,       \* <<>> or <<calculateDistance(point1, point2)>>
    backward,      \* <<>> or <<calculateDistance(point2, point1)>>
    told,          \* per client, the second its last 429 told it to retry at: <<>> or <<t>>
    isRefreshing,  \* api.js: the flag of the response interceptor
    failedRequestsQueue, \* api.js: the requests parked while a refresh runs, oldest first
    calls,         \* the app's requests through `api`: id -> [pc, retry, sends, auth, held]
    storage,       \* AsyncStorage: [token, refreshToken], each <<>> or <<n>>
    authRoutes,    \* which routes/auth.js the server runs: "auth.js", "part_002" or "part_001"
    refresh_tokens,\* table refresh_tokens: a bag of rows [user_id, token]
    authHandlers,  \* auth handlers suspended at an await: a bag of frames
    authRes,       \* the answer an auth handler sent in the last step: <<>> or <<answer>>
    issuedTokens,  \* the refresh tokens clients were ever handed
    redeemed,      \* the refresh tokens a refresh has succeeded for
    revoked        \* the refresh tokens a completed logout covers

clientVars == <<user, radiusInfo, searchRadius>>
serverVars == <<placesTable, req, rpc, places, res, earlier, appResult, NODE_ENV>>
limitVars == <<now, rateLimit, awaiting, answer, recent>>
reviewVars == <<dbSchema, reviews, placeStats, reviewRes>>
ledgerVars == <<usersPoints, points_history>>
bookingVars == <<slotBooked, appointments, handlers, aptRes>>
distanceVars == <<point1, point2, forward, backward>>
retryVars == <<told>>
\* What the clients of the API keep, and the sessions the auth routes keep for them.
refreshVars == <<isRefreshing, failedRequestsQueue, calls, storage>>
authVars == <<authRoutes, refresh_tokens, authHandlers, authRes, issuedTokens, redeemed, revoked>>
sessionVars == <<retryVars, refreshVars, authVars>>
nearbyVars == <<clientVars, serverVars>>
\* Everything outside the rate-limited /nearby requests.
beyondLimit == <<reviewVars, ledgerVars, bookingVars, distanceVars, sessionVars>>
\* Everything outside the map screen and the sequential /nearby exchange.
beyondNearby == <<limitVars, beyondLimit>>
vars == <<user, radiusInfo, searchRadius, placesTable, req, rpc, places, res, earlier, appResult,
          NODE_ENV, now, rateLimit, awaiting, answer, recent, dbSchema, reviews, placeStats,
          reviewRes, usersPoints, points_history, slotBooked, appointments, handlers, aptRes,
          point1, point2, forward, backward, told, isRefreshing, failedRequestsQueue, calls,
          storage, authRoutes, refresh_tokens, authHandlers, authRes, issuedTokens, redeemed,
          revoked>>

Min(a, b) == IF a <= b THEN a ELSE b

\* The rate limiter before any request: an empty table, nothing in flight.
InitLimitIdle ==
    /\ now = 0
    /\ rateLimit = <<>>
    /\ awaiting = <<>>
    /\ answer = <<>>
    /\ recent = <<>>

\* No review, no award, no appointment and no distance call yet.
InitReviewsIdle ==
    /\ dbSchema = "functions"
    /\ reviews = <<>>
    /\ placeStats = <<>>
    /\ reviewRes = <<>>

InitLedgerIdle ==
    /\ usersPoints = <<>>
    /\ points_history = <<>>

InitBookingIdle ==
    /\ slotBooked = <<>>
    /\ appointments = <<>>
    /\ handlers = <<>>
    /\ aptRes = <<>>

InitDistanceIdle ==
    /\ point1 = <<>>
    /\ point2 = <<>>
    /\ forward = <<>>
    /\ backward = <<>>

InitNearbyIdle ==
    /\ user = <<>>
    /\ radiusInfo = <<>>
    /\ searchRadius = 0
    /\ placesTable = <<>>
    /\ req = <<>>
    /\ rpc = <<>>
    /\ places = <<>>
    /\ res = <<>>
    /\ earlier = <<>>
    /\ appResult = <<>>
    /\ NODE_ENV = "production"

\* No client has been told to retry.
InitRetryIdle == told = <<>>

\* The app has sent nothing and holds no tokens.
InitRefreshIdle ==
    /\ isRefreshing = FALSE
    /\ failedRequestsQueue = <<>>
    /\ calls = <<>>
    /\ storage = <<>>

\* Nobody has logged in: no refresh token exists.
InitAuthIdle ==
    /\ authRoutes = "auth.js"
    /\ refresh_tokens = <<>>
    /\ authHandlers = <<>>
    /\ authRes = <<>>
    /\ issuedTokens = {}
    /\ redeemed = {}
    /\ revoked = {}

InitSessionIdle == InitRetryIdle /\ InitRefreshIdle /\ InitAuthIdle

InitBeyondSession == InitReviewsIdle /\ InitLedgerIdle /\ InitBookingIdle /\ InitDistanceIdle
InitBeyondLimit == InitBeyondSession /\ InitSessionIdle
InitBeyondNearby == InitLimitIdle /\ InitBeyondLimit

(***************************************************************************)
(* Radius-unlock policy (client)                                           *)
(***************************************************************************)

\* Largest points total a user of the model holds.
MaxPoints == 1001
\* Largest deficit: the most negative points total handed to the policy.
MaxDebt == 5

PointsDomain == (0 - MaxDebt)..MaxPoints

\* MAP_CONFIG.RADIUS_LEVELS, the table the policy is documented by.
RADIUS_LEVELS ==
    << [points |-> 0,    radius |-> 500,  label |-> "500m"],
       [points |-> 50,   radius |-> 1000, label |-> "1 km"],
       [points |-> 150,  radius |-> 2000, label |-> "2 km"],
       [points |-> 500,  radius |-> 5000, label |-> "5 km"],
       [points |-> 1000, radius |-> -1,   label |-> "Unlimited"] >>

\* The `levels` literal inside getUnlockedRadius.
levels ==
    << [points |-> 0,    radius |-> 500,  label |-> "500m"],
       [points |-> 50,   radius |-> 1000, label |-> "1 km"],
       [points |-> 150,  radius |-> 2000, label |-> "2 km"],
       [points |-> 500,  radius |-> 5000, label |-> "5 km"],
       [points |-> 1000, radius |-> -1,   label |-> "Unlimited"] >>

\* The loop of getUnlockedRadius: cur/nxt are indexes into levels, nxt = 0 is null.
RECURSIVE UnlockLoop(_, _, _, _)
UnlockLoop(points, i, cur, nxt) ==
    IF i > Len(levels) THEN [current |-> cur, next |-> nxt]
    ELSE IF points >= levels[i].points
         THEN UnlockLoop(points, i + 1, i, IF i + 1 <= Len(levels) THEN i + 1 ELSE 0)
         ELSE UnlockLoop(points, i + 1, cur, nxt)

\* Mutant: the threshold comparison is strict.
RECURSIVE UnlockLoopStrict(_, _, _, _)
UnlockLoopStrict(points, i, cur, nxt) ==
    IF i > Len(levels) THEN [current |-> cur, next |-> nxt]
    ELSE IF points > levels[i].points
         THEN UnlockLoopStrict(points, i + 1, i, IF i + 1 <= Len(levels) THEN i + 1 ELSE 0)
         ELSE UnlockLoopStrict(points, i + 1, cur, nxt)

UnlockedRadiusStrict(points) ==
    LET r == UnlockLoopStrict(points, 1, 1, 2)
        current == levels[r.current]
    IN  [points |-> current.points, radius |-> current.radius, label |-> current.label,
         nextLevel |-> IF r.next = 0 THEN <<>> ELSE <<levels[r.next]>>,
         progress |-> IF r.next = 0 THEN <<100, 1>>
                      ELSE <<(points - current.points) * 100,
                             levels[r.next].points - current.points>>,
         threw |-> FALSE]

\* getUnlockedRadius(points). progress is the exact fraction <<numerator, denominator>>;
\* threw records whether the call raised an error (no path of the code does).
getUnlockedRadius(points) ==
    LET r == UnlockLoop(points, 1, 1, 2)
        current == levels[r.current]
    IN  [points |-> current.points, radius |-> current.radius, label |-> current.label,
         nextLevel |-> IF r.next = 0 THEN <<>> ELSE <<levels[r.next]>>,
         progress |-> IF r.next = 0 THEN <<100, 1>>
                      ELSE <<(points - current.points) * 100,
                             levels[r.next].points - current.points>>,
         threw |-> FALSE]

\* MapScreen: const userPoints = user?.points || 0
userPointsOf(u) == IF u = <<>> THEN 0 ELSE IF u[1].points = 0 THEN 0 ELSE u[1].points

\* Radius MapScreen draws when the policy answers "unlimited".
UnlimitedSearchRadius == 10000

\* Mutant: the unlimited sentinel is drawn as it is.
SearchRadiusRaw(info) == info.radius

\* MapScreen: radiusInfo.radius === -1 ? 10000 : radiusInfo.radius
searchRadiusOf(info) == IF info.radius = -1 THEN UnlimitedSearchRadius ELSE info.radius

\* A render of MapScreen with the AuthContext user u.
MapScreen(u) ==
    /\ user' = u
    /\ radiusInfo' = getUnlockedRadius(userPointsOf(u))
    /\ searchRadius' = searchRadiusOf(getUnlockedRadius(userPointsOf(u)))

\* The AuthContext user changes (login, logout, profile refresh) and MapScreen re-renders.
Render ==
    /\ \E u \in {<<>>} \cup {<<[points |-> p]>> : p \in PointsDomain} : MapScreen(u)
    /\ UNCHANGED <<serverVars, beyondNearby>>

InitClient ==
    /\ user = <<>>
    /\ radiusInfo = getUnlockedRadius(0)
    /\ searchRadius = searchRadiusOf(getUnlockedRadius(0))

InitServerIdle ==
    /\ placesTable = <<>>
    /\ req = <<>>
    /\ rpc = <<>>
    /\ places = <<>>
    /\ res = <<>>
    /\ earlier = <<>>
    /\ appResult = <<>>
    /\ NODE_ENV = "production"

InitPolicy == InitClient /\ InitServerIdle /\ InitBeyondNearby
NextPolicy == Render
SpecPolicy == InitPolicy /\ [][NextPolicy]_vars

(***************************************************************************)
(* The places table                                                        *)
(***************************************************************************)

\* Most rows the places table holds.
MaxPlaces == 2

\* Coordinates are in thousandths of a degree. All places and origins of the model
\* lie on the meridian of MAP_CONFIG's default position, so the geodesic distance
\* between two of them is proportional to the difference of their latitudes.
BaseLat == 33573
BaseLng == -7590
\* Latitude offset (thousandths of a degree) of the places that are not at the origin.
StepLat == 7
\* Metres per thousandth of a degree of latitude.
MetersPerMilliDeg == 111

Categories == {"food", "health", "vet", "admin"}

\* The place every other kind of the model differs from in at most one column.
BasePlace ==
    [lat |-> BaseLat, lng |-> BaseLng, category |-> "food", is_open |-> TRUE,
     is_verified |-> TRUE, rating |-> 45]

\* Column values the rows of the model take (ratings are DECIMAL(2,1), in tenths).
PlaceColumns ==
    [lat : {BaseLat, BaseLat + StepLat}, lng : {BaseLng}, category : {"food", "health"},
     is_open : BOOLEAN, is_verified : BOOLEAN, rating : {45, 48}]

PlaceKinds ==
    {k \in PlaceColumns :
        Cardinality({f \in {"lat", "category", "is_open", "is_verified", "rating"} :
                        k[f] # BasePlace[f]}) <= 1}

\* Contents of table places: row i is the i-th place created (id and created_at are i).
Tables == UNION {[1..n -> PlaceKinds] : n \in 0..MaxPlaces}

TableRow(table, i) ==
    [id |-> i, created_at |-> i, lat |-> table[i].lat, lng |-> table[i].lng,
     category |-> table[i].category, is_open |-> table[i].is_open,
     is_verified |-> table[i].is_verified, rating |-> table[i].rating]

(***************************************************************************)
(* SQL: get_nearby_places                                                  *)
(***************************************************************************)

Abs(x) == IF x < 0 THEN 0 - x ELSE x

\* ST_Distance(p.location, ST_MakePoint(lng, lat)) in metres, on the model's meridian.
ST_Distance(plat, lat) == MetersPerMilliDeg * Abs(plat - lat)

\* ST_DWithin(p.location, ST_MakePoint(lng, lat), radius)
ST_DWithin(plat, lat, radius) == ST_Distance(plat, lat) <= radius

\* Every order ORDER BY distance may return the rows S in: ascending in distance,
\* rows at equal distance in any order (SQL leaves their order to the executor).
OrderByDistance(S) ==
    {s \in [1..Cardinality(S) -> S] :
        /\ \A i, j \in 1..Cardinality(S) : i # j => s[i] # s[j]
        /\ \A i, j \in 1..Cardinality(S) : i < j => s[i].distance <= s[j].distance}

\* LIMIT lim OFFSET off
LimitOffset(s, lim, off) ==
    IF off >= Len(s) THEN <<>> ELSE SubSeq(s, off + 1, Min(Len(s), off + lim))

Null == "null"

\* Mutant: the WHERE clause without the category condition.
NearbyWhereNoCategory(p, a) ==
    /\ ST_DWithin(p.lat, a.lat, a.radius_meters)
    /\ (a.is_open_filter = Null \/ (p.is_open <=> a.is_open_filter = "true"))
    /\ p.is_verified = TRUE

\* WHERE clause of get_nearby_places (functions file).
NearbyWhere(p, a) ==
    /\ ST_DWithin(p.lat, a.lat, a.radius_meters)
    /\ (a.place_category = Null \/ p.category = a.place_category)
    /\ (a.is_open_filter = Null \/ (p.is_open <=> a.is_open_filter = "true"))
    /\ p.is_verified = TRUE

\* A row of the RETURNS TABLE of get_nearby_places (functions file).
NearbyRow(p, a) ==
    [id |-> p.id, category |-> p.category, latitude |-> p.lat, longitude |-> p.lng,
     distance |-> ST_Distance(p.lat, a.lat), rating |-> p.rating, is_open |-> p.is_open,
     created_at |-> p.created_at]

\* get_nearby_places(lat, lng, radius_meters, place_category, is_open_filter,
\* result_limit, result_offset): the set of results the query may return.
get_nearby_places(table, a) ==
    LET matching == {NearbyRow(TableRow(table, i), a) :
                        i \in {j \in 1..Len(table) : NearbyWhere(TableRow(table, j), a)}}
    IN  {LimitOffset(s, a.result_limit, a.result_offset) : s \in OrderByDistance(matching)}

\* RLS policy of supabase-schema.sql: "Anyone can view places" ... USING (true)
AnyoneCanViewPlaces(p) == TRUE

\* A row of the RETURNS TABLE of get_nearby_places (supabase-schema.sql).
NearbyRowKm(p, a) ==
    [id |-> p.id, category |-> p.category, latitude |-> p.lat, longitude |-> p.lng,
     distance |-> ST_Distance(p.lat, a.lat), rating |-> p.rating, is_open |-> p.is_open]

\* get_nearby_places(lat, lng, radius_km) of supabase-schema.sql; distance is kept
\* in metres (distance_km * 1000).
get_nearby_places_km(table, a) ==
    LET matching == {NearbyRowKm(TableRow(table, i), a) :
                        i \in {j \in 1..Len(table) :
                                 /\ AnyoneCanViewPlaces(TableRow(table, j))
                                 /\ ST_DWithin(TableRow(table, j).lat, a.lat, a.radius_km * 1000)}}
    IN  OrderByDistance(matching)

(***************************************************************************)
(* GET /api/places/nearby                                                  *)
(***************************************************************************)

\* A query parameter that was not sent.
Undefined == "undefined"

\* parseInt of a string of decimal digits, given as the sequence of its digits.
\* The character '-' at the head of a digit string.
Minus == -1

\* The value of a string of decimal digits.
RECURSIVE parseDigits(_)
parseDigits(digits) ==
    IF Len(digits) = 0 THEN 0
    ELSE 10 * parseDigits(SubSeq(digits, 1, Len(digits) - 1)) + digits[Len(digits)]

\* parseInt on a digit string with an optional leading '-'.
parseInt(digits) ==
    IF Len(digits) > 0 /\ digits[1] = Minus THEN 0 - parseDigits(Tail(digits))
    ELSE parseDigits(digits)

\* The string is an integer literal: digits, with at most a sign before them.
isIntLiteral(digits) ==
    /\ Len(digits) > 0
    /\ digits[1] = Minus => Len(digits) > 1
    /\ \A i \in 1..Len(digits) : digits[i] \in 0..9 \/ (i = 1 /\ digits[i] = Minus)

\* isInt({ min, max }) on a digit string
isInt(digits, min, max) ==
    isIntLiteral(digits) /\ parseInt(digits) >= min /\ parseInt(digits) <= max

\* isInt({ min }) on a digit string
isIntMin(digits, min) == isIntLiteral(digits) /\ parseInt(digits) >= min

\* .optional(): a parameter that was not sent (the empty sequence) is not validated.
optional(digits) == Len(digits) = 0

\* Mutant: the chain without its check on lat.
ValidationErrorsNoLat(q) ==
    {f \in {"lng", "radius", "category", "open", "limit", "offset"} :
        \/ f = "lng" /\ ~(q.lng >= -180000 /\ q.lng <= 180000)
        \/ f = "radius" /\ ~(optional(q.radius) \/ isInt(q.radius, 100, 50000))
        \/ f = "category" /\ ~(q.category = Undefined \/ q.category \in Categories)
        \/ f = "open" /\ ~(q.open = Undefined \/ q.open \in {"true", "false", "1", "0"})
        \/ f = "limit" /\ ~(optional(q.limit) \/ isInt(q.limit, 1, 100))
        \/ f = "offset" /\ ~(optional(q.offset) \/ isIntMin(q.offset, 0))}

\* The validation chain of the route: the names of the fields that fail.
ValidationErrors(q) ==
    {f \in {"lat", "lng", "radius", "category", "open", "limit", "offset"} :
        \/ f = "lat" /\ ~(q.lat >= -90000 /\ q.lat <= 90000)
        \/ f = "lng" /\ ~(q.lng >= -180000 /\ q.lng <= 180000)
        \/ f = "radius" /\ ~(optional(q.radius) \/ isInt(q.radius, 100, 50000))
        \/ f = "category" /\ ~(q.category = Undefined \/ q.category \in Categories)
        \/ f = "open" /\ ~(q.open = Undefined \/ q.open \in {"true", "false", "1", "0"})
        \/ f = "limit" /\ ~(optional(q.limit) \/ isInt(q.limit, 1, 100))
        \/ f = "offset" /\ ~(optional(q.offset) \/ isIntMin(q.offset, 0))}

\* Destructuring default: `name = dflt` applies when the parameter was not sent.
OrDefault(digits, dflt) == IF Len(digits) = 0 THEN dflt ELSE digits

\* The parameter object the handler passes to Database.rpc('get_nearby_places', ...);
\* u is req.user as optionalAuth left it (the handler does not read it).
RpcParams(q, u) ==
    [lat |-> q.lat, lng |-> q.lng,
     radius_meters |-> parseInt(OrDefault(q.radius, <<1, 0, 0, 0>>)),
     place_category |-> IF q.category = Undefined THEN Null ELSE q.category,
     is_open_filter |-> IF q.open # Undefined
                        THEN (IF q.open = "true" THEN "true" ELSE "false") ELSE Null,
     result_limit |-> parseInt(OrDefault(q.limit, <<2, 0>>)),
     result_offset |-> parseInt(OrDefault(q.offset, <<0>>))]

\* An error object as errorHandler reads it: class name, statusCode (ApiError only),
\* message, details (ApiError only) and code ("" when the error has none).
Thrown(name, statusCode, message, details, code) ==
    [name |-> name, statusCode |-> statusCode, message |-> message, details |-> details,
     code |-> code]

\* createError.badRequest(message, details)
badRequest(message, details) == Thrown("ApiError", 400, message, details, "")

\* createError.conflict(message)
conflict(message) == Thrown("ApiError", 409, message, {}, "")

\* What supabase.rpc puts in result.error when the call fails, thrown by executeQuery
\* as it is: the backend's own message and code (PostgREST cannot find the function;
\* PostgreSQL cancels the statement).
RpcErrors ==
    {Thrown("PostgrestError", 0,
            "Could not find the function public.get_nearby_places in the schema cache",
            {}, "PGRST202"),
     Thrown("PostgrestError", 0, "canceling statement due to statement timeout", {}, "57014")}

\* Reading `result`, which the handler never declares.
ReferenceError == Thrown("ReferenceError", 0, "result is not defined", {}, "")

\* A response body and status as the model keeps it.
Response(status, success, message, details, thrown) ==
    [status |-> status, success |-> success, message |-> message, details |-> details,
     thrown |-> thrown, data |-> <<>>, meta |-> <<>>]

\* errorHandler: the response for an error thrown in a handler. An ApiError keeps its
\* status, message and details; the PostgreSQL codes 23505 and 23503 have their own
\* answers; anything else is a 500 whose message is the error's own in development.
errorHandler(err, env) ==
    IF err.name = "ApiError"
    THEN Response(err.statusCode, FALSE, err.message, err.details, err.name)
    ELSE IF err.code = "23505"
    THEN Response(409, FALSE, "Resource already exists", {}, err.name)
    ELSE IF err.code = "23503"
    THEN Response(400, FALSE, "Related resource not found", {}, err.name)
    ELSE Response(500, FALSE,
                  IF env = "development" THEN err.message ELSE "Internal server error",
                  {}, err.name)

\* Query strings the model sends: every field with values inside its range and
\* outside it, at most two fields of one request being out of range.
Queries ==
    {q \in [lat : {BaseLat, 95000}, lng : {BaseLng, 181000},
            radius : {<<>>, <<5, 0>>, <<5, 0, 0>>, <<1, 0, 0, 0>>, <<5, 0, 0, 0, 1>>},
            category : {Undefined, "food", "bar"},
            open : {Undefined, "true", "1"},
            limit : {<<>>, <<1>>, <<0>>, <<1, 0, 1>>},
            offset : {<<>>, <<1>>, <<Minus, 1>>}] :
        Cardinality(ValidationErrors(q)) <= 2}

\* req.user after optionalAuth: none, or the users row of the bearer of the token.
ReqUsers == {<<>>} \cup {<<[points |-> p]>> : p \in {0, 1000}}

\* The handler, for query q and req.user u: validation fails.
NearbyInvalid(q, u) ==
    /\ ValidationErrors(q) # {}
    /\ req' = <<[query |-> q, user |-> u]>>
    /\ rpc' = <<>>
    /\ places' = <<>>
    /\ res' = <<errorHandler(badRequest("Validation failed", ValidationErrors(q)), NODE_ENV)>>

\* The handler: Database.rpc fails (executeQuery throws the Supabase error).
NearbyRpcFails(q, u) ==
    /\ ValidationErrors(q) = {}
    /\ req' = <<[query |-> q, user |-> u]>>
    /\ rpc' = <<RpcParams(q, u)>>
    /\ places' = <<>>
    /\ \E err \in RpcErrors : res' = <<errorHandler(err, NODE_ENV)>>

\* The handler: Database.rpc returns rows; building the body then reads
\* `result.rows`, and `result` is not declared in the handler: ReferenceError.
NearbyRpcReturns(q, u) ==
    /\ ValidationErrors(q) = {}
    /\ req' = <<[query |-> q, user |-> u]>>
    /\ rpc' = <<RpcParams(q, u)>>
    /\ \E rows \in get_nearby_places(placesTable, RpcParams(q, u)) : places' = <<rows>>
    /\ res' = <<errorHandler(ReferenceError, NODE_ENV)>>

NearbyRoute(q, u) == NearbyInvalid(q, u) \/ NearbyRpcFails(q, u) \/ NearbyRpcReturns(q, u)

\* placesAPI.getNearby(params): the client sends a request and the server answers it.
GetNearby ==
    /\ res = <<>> /\ appResult = <<>>
    /\ \E q \in Queries, u \in ReqUsers : NearbyRoute(q, u)
    /\ earlier' = <<>>
    /\ UNCHANGED <<placesTable, appResult, NODE_ENV, clientVars, beyondNearby>>

\* The client sends the request it has just been answered once more.
GetNearbyAgain ==
    /\ res # <<>> /\ places # <<>> /\ earlier = <<>>
    /\ NearbyRoute(req[1].query, req[1].user)
    /\ earlier' = places
    /\ UNCHANGED <<placesTable, appResult, NODE_ENV, clientVars, beyondNearby>>

\* getNearbyPlaces(latitude, longitude, radiusKm, category) of the app's Supabase
\* service: calls get_nearby_places(lat, lng, radius_km) and filters by category.
getNearbyPlaces ==
    /\ res = <<>> /\ appResult = <<>>
    /\ \E radiusKm \in {1, 5}, category \in {Null, "food"} :
        \E rows \in get_nearby_places_km(placesTable, [lat |-> BaseLat, lng |-> BaseLng,
                                                       radius_km |-> radiusKm]) :
            appResult' = <<[radius_km |-> radiusKm, category |-> category,
                            data |-> IF category = Null THEN rows
                                     ELSE SelectSeq(rows, LAMBDA r : r.category = category)]>>
    /\ UNCHANGED <<placesTable, req, rpc, places, res, earlier, NODE_ENV, clientVars, beyondNearby>>

\* The caller takes the answer; nothing of the request is kept.
Receive ==
    /\ res # <<>> \/ appResult # <<>>
    /\ req' = <<>> /\ rpc' = <<>> /\ places' = <<>> /\ res' = <<>>
    /\ earlier' = <<>> /\ appResult' = <<>>
    /\ UNCHANGED <<placesTable, NODE_ENV, clientVars, beyondNearby>>

Init ==
    /\ InitClient
    /\ placesTable \in Tables
    /\ req = <<>> /\ rpc = <<>> /\ places = <<>> /\ res = <<>>
    /\ earlier = <<>> /\ appResult = <<>>
    /\ NODE_ENV \in {"development", "production"}
    /\ InitBeyondNearby

Next == GetNearby \/ GetNearbyAgain \/ getNearbyPlaces \/ Receive

Spec == Init /\ [][Next]_vars

(***************************************************************************)
(* The rate limiter in front of the routes, and /nearby requests in flight *)
(***************************************************************************)

\* RATE_LIMIT_WINDOW_MS / 1000 of the deployment the model runs.
WindowSeconds == 2
\* RATE_LIMIT_MAX_REQUESTS of the deployment the model runs.
MaxRequests == 2
\* Handlers that can be suspended at the rpc at one time.
MaxInFlight == 2
\* The clock stops once the cleanup has had entries to delete.
MaxTime == 2 * WindowSeconds + 1

\* req.ip of the clients; rateLimiter runs before any authentication, so
\* req.user is undefined there and the client id is req.ip.
Ips == {"10.0.0.1", "10.0.0.2"}

\* rateLimit[clientId] after the limiter has initialised it and applied the reset.
clientData(entry, t) ==
    LET data == IF entry = <<>> THEN [count |-> 0, startTime |-> t] ELSE entry[1]
    IN  IF t - data.startTime > WindowSeconds THEN [count |-> 0, startTime |-> t] ELSE data

\* Mutant: the limiter refuses one request early.
LimitedEarly(data) == data.count >= MaxRequests - 1

\* Mutant: the limiter lets one request too many through.
LimitedLate(data) == data.count > MaxRequests

\* if (clientData.count >= maxRequests)
Limited(data) == data.count >= MaxRequests

\* The headers the limiter sets on a request it passes on, from the entry after
\* the increment; X-RateLimit-Reset as the second the window ends.
RateLimitHeaders(data) ==
    [limit |-> MaxRequests, remaining |-> MaxRequests - data.count,
     reset |-> data.startTime + WindowSeconds]

\* The 429 the limiter sends, retryAfter in seconds.
TooManyRequests(data, t) ==
    [status |-> 429, success |-> FALSE,
     message |-> "Too many requests. Please try again later.",
     retryAfter |-> data.startTime + WindowSeconds - t]

\* The /nearby queries sent through the limiter: all defaults, and a latitude of 95.
LimitQueries ==
    {[lat |-> l, lng |-> BaseLng, radius |-> <<>>, category |-> Undefined, open |-> Undefined,
      limit |-> <<>>, offset |-> <<>>] : l \in {BaseLat, 95000}}

\* A request from ip arrives: the limiter runs, then the handler up to its await.
Arrive(ip, q) ==
    LET data == clientData(rateLimit[ip], now)
        call == [ip |-> ip, query |-> q]
        sent == [ip |-> ip, query |-> q, earlier |-> Len(recent[ip])]
    IN  /\ recent' = [recent EXCEPT ![ip] = Append(@, now)]
        /\ IF Limited(data)
           THEN /\ rateLimit' = [rateLimit EXCEPT ![ip] = <<data>>]
                /\ answer' = <<sent @@ [res |-> TooManyRequests(data, now)]>>
                /\ UNCHANGED awaiting
           ELSE /\ rateLimit' = [rateLimit EXCEPT ![ip] = <<[data EXCEPT !.count = @ + 1]>>]
                /\ IF ValidationErrors(q) # {}
                   THEN /\ answer' = <<sent @@ [res |-> errorHandler(
                                        badRequest("Validation failed", ValidationErrors(q)),
                                        NODE_ENV)]>>
                        /\ UNCHANGED awaiting
                   ELSE /\ BagCardinality(awaiting) < MaxInFlight
                        /\ awaiting' = awaiting (+) SetToBag({call})
                        /\ answer' = <<>>

\* A request reaches the server.
Request ==
    /\ \E ip \in Ips, q \in LimitQueries :
          /\ Len(recent[ip]) <= MaxRequests
          /\ Arrive(ip, q)
    /\ UNCHANGED <<now, placesTable, NODE_ENV, req, rpc, places, res, earlier, appResult, clientVars, beyondLimit>>

\* The rpc of a suspended handler fails: executeQuery throws the Supabase error.
RpcRejects ==
    /\ \E call \in BagToSet(awaiting), err \in RpcErrors :
          /\ answer' = <<call @@ [earlier |-> 0, res |-> errorHandler(err, NODE_ENV)]>>
          /\ awaiting' = awaiting (-) SetToBag({call})
    /\ UNCHANGED <<now, rateLimit, recent, placesTable, NODE_ENV, req, rpc, places, res, earlier,
                   appResult, clientVars, beyondLimit>>

\* The rpc of a suspended handler returns rows; the handler resumes and reads
\* `result.rows`.
RpcResolves ==
    /\ \E call \in BagToSet(awaiting) :
          /\ get_nearby_places(placesTable, RpcParams(call.query, <<>>)) # {}
          /\ answer' = <<call @@ [earlier |-> 0, res |-> errorHandler(ReferenceError, NODE_ENV)]>>
          /\ awaiting' = awaiting (-) SetToBag({call})
    /\ UNCHANGED <<now, rateLimit, recent, placesTable, NODE_ENV, req, rpc, places, res, earlier,
                   appResult, clientVars, beyondLimit>>

\* A second passes; arrivals older than one window leave the record of recent ones.
Tick ==
    /\ now < MaxTime
    /\ now' = now + 1
    /\ recent' = [ip \in Ips |->
                     SelectSeq(recent[ip], LAMBDA t : t >= now + 1 - WindowSeconds)]
    /\ answer' = <<>>
    /\ UNCHANGED <<rateLimit, awaiting, placesTable, NODE_ENV, req, rpc, places, res,
                   earlier, appResult, clientVars, beyondLimit>>

\* The setInterval callback: entries whose window started more than two windows
\* ago are deleted.
Cleanup ==
    /\ \E ip \in Ips : rateLimit[ip] # <<>> /\ now - rateLimit[ip][1].startTime > WindowSeconds * 2
    /\ rateLimit' = [ip \in Ips |->
                        IF rateLimit[ip] # <<>>
                              /\ now - rateLimit[ip][1].startTime > WindowSeconds * 2
                        THEN <<>> ELSE rateLimit[ip]]
    /\ answer' = <<>>
    /\ UNCHANGED <<now, awaiting, recent, placesTable, NODE_ENV, req, rpc, places, res,
                   earlier, appResult, clientVars, beyondLimit>>

InitLimit ==
    /\ InitClient
    /\ placesTable = <<BasePlace>>
    /\ req = <<>> /\ rpc = <<>> /\ places = <<>> /\ res = <<>>
    /\ earlier = <<>> /\ appResult = <<>>
    /\ NODE_ENV \in {"development", "production"}
    /\ now = 0
    /\ rateLimit = [ip \in Ips |-> <<>>]
    /\ awaiting = EmptyBag
    /\ answer = <<>>
    /\ recent = [ip \in Ips |-> <<>>]
    /\ InitBeyondLimit

NextLimit == Request \/ RpcRejects \/ RpcResolves \/ Tick \/ Cleanup

SpecLimit == InitLimit /\ [][NextLimit]_vars

(***************************************************************************)
(* Clients that keep what a 429 told them (the limiter as in SpecLimit)    *)
(***************************************************************************)

\* The second a 429 pointed ip at has come.
Due(ip) == told[ip] # <<>> /\ now >= told[ip][1]

\* A request reaches the server, from a client that stays within one request over
\* the limit per window or from one whose retryAfter has passed; a client that is
\* answered 429 notes the second the answer's retryAfter points at, and forgets it
\* with its next request.
RequestNoting ==
    /\ \E ip \in Ips, q \in LimitQueries :
          /\ \/ Len(recent[ip]) <= MaxRequests
             \/ Due(ip) /\ Len(recent[ip]) <= MaxRequests + 1
          /\ Arrive(ip, q)
          /\ told' = [told EXCEPT ![ip] =
                         IF answer' # <<>> /\ answer'[1].res.status = 429
                         THEN <<now + answer'[1].res.retryAfter>>
                         ELSE <<>>]
    /\ UNCHANGED <<now, placesTable, NODE_ENV, req, rpc, places, res, earlier, appResult, clientVars,
                   reviewVars, ledgerVars, bookingVars, distanceVars, refreshVars, authVars>>

InitRetry ==
    /\ InitClient
    /\ placesTable = <<BasePlace>>
    /\ req = <<>> /\ rpc = <<>> /\ places = <<>> /\ res = <<>>
    /\ earlier = <<>> /\ appResult = <<>>
    /\ NODE_ENV \in {"development", "production"}
    /\ now = 0
    /\ rateLimit = [ip \in Ips |-> <<>>]
    /\ awaiting = EmptyBag
    /\ answer = <<>>
    /\ recent = [ip \in Ips |-> <<>>]
    /\ told = [ip \in Ips |-> <<>>]
    /\ InitBeyondSession /\ InitRefreshIdle /\ InitAuthIdle

NextRetry == RequestNoting \/ RpcRejects \/ RpcResolves \/ Tick \/ Cleanup

SpecRetry == InitRetry /\ [][NextRetry]_vars

(***************************************************************************)
(* The app's API client: the response interceptor that refreshes the token *)
(*                                                                         *)
(* JavaScript runs each callback to its next await without interruption;   *)
(* an action is one such stretch of the interceptor for one request.       *)
(***************************************************************************)

\* Requests the app makes through `api`.
MaxCalls == 2
\* Times one request is put on the wire at most: the server stops answering a
\* request 401 once it has been sent this often.
MaxSends == 3

CallIds == 1..MaxCalls

\* Everything outside the app's API client.
beyondRefresh == <<retryVars, authVars, nearbyVars, limitVars, reviewVars, ledgerVars,
                   bookingVars, distanceVars>>

\* A request not made yet: originalRequest._retry unset, nothing sent.
NewCall == [pc |-> "new", retry |-> FALSE, sends |-> 0, auth |-> <<>>, held |-> <<>>]

\* clearAuthData: multiRemove of the token, the refresh token and the user.
clearAuthData == [token |-> <<>>, refreshToken |-> <<>>]

\* The request interceptor: the Authorization header is the stored token if there
\* is one, else the header the request already carries.
Authorization(store, header) == IF store.token # <<>> THEN store.token ELSE header

\* api(originalRequest): the request goes on the wire once more.
Resent(call, store, header) ==
    [call EXCEPT !.pc = "sent", !.sends = @ + 1, !.auth = Authorization(store, header)]

\* processQueue(token): every parked request is resolved with the token, and its
\* `then` sends it again, or is rejected when the token is null; the requests that
\* are not parked stay as they are.
processQueue(cs, queue, token, store) ==
    [c \in DOMAIN cs |->
        IF \E i \in 1..Len(queue) : queue[i] = c
        THEN IF token # <<>> THEN Resent(cs[c], store, token)
                             ELSE [cs[c] EXCEPT !.pc = "failed"]
        ELSE cs[c]]

\* Mutant: the interceptor never sees a refresh in progress.
NeverRefreshing == FALSE

\* if (isRefreshing)
AlreadyRefreshing == isRefreshing

\* The app makes a request; the request interceptor adds the stored token.
SendCall ==
    /\ \E c \in CallIds :
          /\ calls[c].pc = "new"
          /\ calls' = [calls EXCEPT ![c] = Resent(@, storage, <<>>)]
    /\ UNCHANGED <<isRefreshing, failedRequestsQueue, storage, beyondRefresh>>

\* The server answers a request 2xx: (response) => response.
Respond200 ==
    /\ \E c \in CallIds :
          /\ calls[c].pc = "sent"
          /\ calls' = [calls EXCEPT ![c].pc = "done"]
    /\ UNCHANGED <<isRefreshing, failedRequestsQueue, storage, beyondRefresh>>

\* The server answers a request 401: the interceptor parks it, or starts a refresh
\* and runs to `await AsyncStorage.getItem`, or rejects with the formatted error.
Respond401 ==
    /\ \E c \in CallIds :
          /\ calls[c].pc = "sent"
          /\ calls[c].sends < MaxSends
          /\ IF ~calls[c].retry
             THEN IF AlreadyRefreshing
                  THEN /\ failedRequestsQueue' = Append(failedRequestsQueue, c)
                       /\ calls' = [calls EXCEPT ![c].pc = "queued"]
                       /\ UNCHANGED isRefreshing
                  ELSE /\ calls' = [calls EXCEPT ![c].retry = TRUE, ![c].pc = "getItem"]
                       /\ isRefreshing' = TRUE
                       /\ UNCHANGED failedRequestsQueue
             ELSE /\ calls' = [calls EXCEPT ![c].pc = "failed"]
                  /\ UNCHANGED <<isRefreshing, failedRequestsQueue>>
    /\ UNCHANGED <<storage, beyondRefresh>>

\* getItem(REFRESH_TOKEN_KEY) returns: without a refresh token the handler awaits
\* clearAuthData, else it posts the refresh token to /auth/refresh-token.
ReadRefreshToken ==
    /\ \E c \in CallIds :
          /\ calls[c].pc = "getItem"
          /\ calls' = [calls EXCEPT ![c] =
                          IF storage.refreshToken = <<>>
                          THEN [@ EXCEPT !.pc = "clearing"]
                          ELSE [@ EXCEPT !.pc = "refreshing", !.held = storage.refreshToken]]
    /\ UNCHANGED <<isRefreshing, failedRequestsQueue, storage, beyondRefresh>>

\* clearAuthData of the try block is done; 'No refresh token' is thrown and the
\* catch block awaits clearAuthData again.
NoRefreshToken ==
    /\ \E c \in CallIds :
          /\ calls[c].pc = "clearing"
          /\ calls' = [calls EXCEPT ![c].pc = "catch"]
    /\ storage' = clearAuthData
    /\ UNCHANGED <<isRefreshing, failedRequestsQueue, beyondRefresh>>

\* axios.post(/auth/refresh-token) fails (401, network): the catch block awaits
\* clearAuthData.
RefreshFails ==
    /\ \E c \in CallIds :
          /\ calls[c].pc = "refreshing"
          /\ calls' = [calls EXCEPT ![c].pc = "catch"]
    /\ UNCHANGED <<isRefreshing, failedRequestsQueue, storage, beyondRefresh>>

\* axios.post(/auth/refresh-token) returns the next token pair; the handler awaits
\* setItem(TOKEN_KEY).
RefreshSucceeds ==
    /\ \E c \in CallIds :
          /\ calls[c].pc = "refreshing"
          /\ calls' = [calls EXCEPT ![c].pc = "setToken", ![c].held = <<@[1] + 1>>]
    /\ UNCHANGED <<isRefreshing, failedRequestsQueue, storage, beyondRefresh>>

\* setItem(TOKEN_KEY) is done; the handler awaits setItem(REFRESH_TOKEN_KEY).
StoreToken ==
    /\ \E c \in CallIds :
          /\ calls[c].pc = "setToken"
          /\ storage' = [storage EXCEPT !.token = calls[c].held]
          /\ calls' = [calls EXCEPT ![c].pc = "setRefresh"]
    /\ UNCHANGED <<isRefreshing, failedRequestsQueue, beyondRefresh>>

\* setItem(REFRESH_TOKEN_KEY) is done: processQueue(token), api(originalRequest),
\* and the finally block, without an await in between.
StoreRefreshToken ==
    /\ \E c \in CallIds :
          /\ calls[c].pc = "setRefresh"
          /\ storage' = [storage EXCEPT !.refreshToken = calls[c].held]
          /\ calls' = [processQueue(calls, failedRequestsQueue, calls[c].held, storage')
                          EXCEPT ![c] = Resent(calls[c], storage', calls[c].held)]
    /\ failedRequestsQueue' = <<>>
    /\ isRefreshing' = FALSE
    /\ UNCHANGED beyondRefresh

\* clearAuthData of the catch block is done: processQueue(null), the rejection of
\* the request, and the finally block.
RefreshFailed ==
    /\ \E c \in CallIds :
          /\ calls[c].pc = "catch"
          /\ calls' = [processQueue(calls, failedRequestsQueue, <<>>, clearAuthData)
                          EXCEPT ![c].pc = "failed"]
    /\ storage' = clearAuthData
    /\ failedRequestsQueue' = <<>>
    /\ isRefreshing' = FALSE
    /\ UNCHANGED beyondRefresh

\* The app is logged in (token pair 0) or holds an access token only.
InitRefresh ==
    /\ isRefreshing = FALSE
    /\ failedRequestsQueue = <<>>
    /\ calls = [c \in CallIds |-> NewCall]
    /\ storage \in {[token |-> <<0>>, refreshToken |-> <<0>>],
                    [token |-> <<0>>, refreshToken |-> <<>>]}
    /\ InitRetryIdle /\ InitAuthIdle /\ InitNearbyIdle /\ InitLimitIdle /\ InitBeyondSession

NextRefresh ==
    \/ SendCall \/ Respond200 \/ Respond401
    \/ ReadRefreshToken \/ NoRefreshToken \/ RefreshFails \/ RefreshSucceeds
    \/ StoreToken \/ StoreRefreshToken \/ RefreshFailed

SpecRefresh == InitRefresh /\ [][NextRefresh]_vars

\* A promise of AsyncStorage settles, and so does the POST to /auth/refresh-token
\* (with a response or a network error): a handler inside the refresh block always
\* gets its next stretch. Nothing is assumed about the app making requests or the
\* server answering them.
FairRefresh ==
    /\ WF_vars(ReadRefreshToken) /\ WF_vars(NoRefreshToken)
    /\ WF_vars(RefreshFails \/ RefreshSucceeds)
    /\ WF_vars(StoreToken) /\ WF_vars(StoreRefreshToken) /\ WF_vars(RefreshFailed)

SpecRefreshLive == SpecRefresh /\ FairRefresh

(***************************************************************************)
(* Reviews and the rating of a place                                       *)
(***************************************************************************)

\* Rows the reviews table holds at most.
MaxReviews == 2

Users == {"u1", "u2"}
ReviewPlaces == {"p1", "p2"}
\* reviews.rating: INTEGER CHECK (rating BETWEEN 1 AND 5); the model uses three of them.
Ratings == {1, 4, 5}

\* SQL NULL in a numeric column.
NullNumber == -1

\* SELECT id FROM reviews WHERE place_id = place
ReviewsOf(table, place) ==
    {id \in DOMAIN table : table[id] # <<>> /\ table[id][1].place_id = place}

\* SUM(rating) over the rows ids.
RECURSIVE SumRating(_, _)
SumRating(table, ids) ==
    IF ids = {} THEN 0
    ELSE LET id == CHOOSE i \in ids : TRUE
         IN  table[id][1].rating + SumRating(table, ids \ {id})

\* AVG(rating) as a DECIMAL(2,1) column keeps it (and as ROUND(.., 1) returns it):
\* tenths, halves rounded away from zero; NULL over no rows.
AvgRating(table, place) ==
    LET ids == ReviewsOf(table, place)
        n   == Cardinality(ids)
    IN  IF n = 0 THEN NullNumber ELSE (20 * SumRating(table, ids) + n) \div (2 * n)

COALESCE(value, dflt) == IF value = NullNumber THEN dflt ELSE value

\* The statement of update_place_rating, run for the place the trigger row names:
\* supabase-schema.sql stores ROUND(AVG, 1), the functions file COALESCE(AVG, 0).
update_place_rating(schema, table, stats, place) ==
    [stats EXCEPT ![place] =
        [rating |-> IF schema = "supabase-schema" THEN AvgRating(table, place)
                    ELSE COALESCE(AvgRating(table, place), 0),
         review_count |-> Cardinality(ReviewsOf(table, place))]]

\* The events the installed trigger is declared for.
TriggerEvents(schema) ==
    IF schema = "supabase-schema" THEN {"INSERT", "UPDATE"} ELSE {"INSERT", "UPDATE", "DELETE"}

\* The row trigger after `event` left the table as `table`: newPlace is NEW.place_id,
\* oldPlace is OLD.place_id (Null where the event has no such row).
AfterRowTrigger(schema, event, table, stats, newPlace, oldPlace) ==
    IF event \notin TriggerEvents(schema) THEN stats
    ELSE IF schema = "supabase-schema"
    THEN (IF newPlace = Null THEN stats
          ELSE update_place_rating(schema, table, stats, newPlace))
    ELSE update_place_rating(schema, table, stats,
                             IF newPlace # Null THEN newPlace ELSE oldPlace)

\* UNIQUE (place_id, user_id) of schema.sql and setup.sql; supabase-schema.sql has
\* no such constraint.
UniqueViolated(schema, table, id, row) ==
    /\ schema = "functions"
    /\ \E other \in DOMAIN table \ {id} :
          /\ table[other] # <<>>
          /\ table[other][1].place_id = row.place_id
          /\ table[other][1].user_id = row.user_id

\* submitReview of the app: INSERT INTO reviews through the Supabase client, as the
\* signed-in user (policy: auth.uid() = user_id).
submitReview ==
    /\ \E id \in DOMAIN reviews, u \in Users, p \in ReviewPlaces, r \in Ratings :
          LET row == [place_id |-> p, user_id |-> u, rating |-> r]
              table == [reviews EXCEPT ![id] = <<row>>]
          IN  /\ reviews[id] = <<>>
              /\ ~UniqueViolated(dbSchema, reviews, id, row)
              /\ reviews' = table
              /\ placeStats' = AfterRowTrigger(dbSchema, "INSERT", table, placeStats, p, Null)
    /\ reviewRes' = <<>>
    /\ UNCHANGED <<dbSchema, ledgerVars, nearbyVars, limitVars, sessionVars, bookingVars, distanceVars>>

\* UPDATE reviews SET rating, place_id by the owner of the row (policy "Users can
\* update own reviews": auth.uid() = user_id, any column).
UpdateReview ==
    /\ \E id \in DOMAIN reviews, p \in ReviewPlaces, r \in Ratings :
          /\ reviews[id] # <<>>
          /\ LET old == reviews[id][1]
                 row == [old EXCEPT !.place_id = p, !.rating = r]
                 table == [reviews EXCEPT ![id] = <<row>>]
             IN  /\ row # old
                 /\ ~UniqueViolated(dbSchema, reviews, id, row)
                 /\ reviews' = table
                 /\ placeStats' = AfterRowTrigger(dbSchema, "UPDATE", table, placeStats,
                                                  p, old.place_id)
    /\ reviewRes' = <<>>
    /\ UNCHANGED <<dbSchema, ledgerVars, nearbyVars, limitVars, sessionVars, bookingVars, distanceVars>>

\* DELETE FROM reviews by the owner of the row: the policy file next to the
\* functions file allows it, supabase-schema.sql has no DELETE policy.
DeleteReview ==
    /\ dbSchema = "functions"
    /\ \E id \in DOMAIN reviews :
          /\ reviews[id] # <<>>
          /\ LET table == [reviews EXCEPT ![id] = <<>>]
             IN  /\ reviews' = table
                 /\ placeStats' = AfterRowTrigger(dbSchema, "DELETE", table, placeStats,
                                                  Null, reviews[id][1].place_id)
    /\ reviewRes' = <<>>
    /\ UNCHANGED <<dbSchema, ledgerVars, nearbyVars, limitVars, sessionVars, bookingVars, distanceVars>>

\* Reading `db`, which routes/places.js never declares (it requires Database).
DbNotDefined == Thrown("ReferenceError", 0, "db is not defined", {}, "")

\* POST /api/places/:id/reviews by an authenticated user: the body is validated,
\* then the first statement of the handler is `await db.query(...)`.
PostReview ==
    /\ reviewRes = <<>>
    /\ \E u \in Users, p \in ReviewPlaces, r \in {0, 5}, photos \in {0, 1} :
          reviewRes' = <<[user |-> u, place |-> p, rating |-> r, photos |-> photos,
                          res |-> IF ~(r >= 1 /\ r <= 5)
                                  THEN errorHandler(badRequest("Validation failed", {"rating"}),
                                                    NODE_ENV)
                                  ELSE errorHandler(DbNotDefined, NODE_ENV)]>>
    /\ UNCHANGED <<dbSchema, reviews, placeStats, ledgerVars, nearbyVars, limitVars, sessionVars,
                   bookingVars, distanceVars>>

InitReviews ==
    /\ dbSchema \in {"supabase-schema", "functions"}
    /\ reviews = [id \in 1..MaxReviews |-> <<>>]
    /\ placeStats = [p \in ReviewPlaces |-> [rating |-> 0, review_count |-> 0]]
    /\ reviewRes = <<>>
    /\ usersPoints = [u \in Users |-> 0]
    /\ points_history = <<>>
    /\ InitNearbyIdle /\ InitLimitIdle /\ InitSessionIdle /\ InitBookingIdle /\ InitDistanceIdle

NextReviews == submitReview \/ UpdateReview \/ DeleteReview \/ PostReview

SpecReviews == InitReviews /\ [][NextReviews]_vars

(***************************************************************************)
(* calculateDistance (haversine) in fixed point                            *)
(*                                                                         *)
(* Angles are whole multiples of 7.5 degrees (48 to the circle), so that   *)
(* the half differences of coordinates on a 15-degree grid are exact.      *)
(* Numbers between -1 and 1 are kept in ten-thousandths.                   *)
(***************************************************************************)

\* The latitude of the north pole, 90 degrees, in units of 15 degrees.
Pole == 6

\* sin of 0, 7.5, ..., 90 degrees, in ten-thousandths.
SinTable == <<0, 1305, 2588, 3827, 5000, 6088, 7071, 7934, 8660, 9239, 9659, 9914, 10000>>

\* Math.sin for k * 7.5 degrees, -360 <= k * 7.5 <= 360. Math.sin is odd, bit for
\* bit: sin(-x) is -sin(x).
RECURSIVE MathSin(_)
MathSin(k) ==
    IF k < 0 THEN 0 - MathSin(0 - k)
    ELSE IF k <= 12 THEN SinTable[k + 1]
    ELSE IF k <= 24 THEN SinTable[24 - k + 1]
    ELSE 0 - MathSin(k - 24)

\* Math.cos for k * 7.5 degrees, a latitude: -90 <= k * 7.5 <= 90.
MathCos(k) == SinTable[12 - Abs(k) + 1]

\* The product of two numbers in ten-thousandths, rounded as floating point does:
\* the magnitude is rounded, the sign is that of the exact product.
Times(x, y) ==
    IF x * y < 0 THEN 0 - ((0 - x * y) \div 10000) ELSE (x * y) \div 10000

\* 2 * atan2(sqrt(a), sqrt(1 - a)): the central angle whose haversine is a, in
\* units of 7.5 degrees (the largest angle of the table not beyond a).
CentralAngle(a) ==
    LET half == CHOOSE h \in 0..12 :
                    /\ Times(SinTable[h + 1], SinTable[h + 1]) <= a
                    /\ \A g \in 0..12 : Times(SinTable[g + 1], SinTable[g + 1]) <= a => g <= h
    IN  2 * half

\* R = 6371e3 metres, kept in kilometres.
EarthRadiusKm == 6371

\* An arc of c units of 7.5 degrees on the sphere, in kilometres: R * c * pi / 24.
ArcKm(c) == (EarthRadiusKm * c * 3142) \div 24000

\* Mutant: cos of the first latitude taken twice.
calculateDistanceFirstLat(p1, p2) ==
    LET dphi == p2.latitude - p1.latitude
        dlam == p2.longitude - p1.longitude
        a == Times(MathSin(dphi), MathSin(dphi))
             + Times(Times(Times(MathCos(2 * p1.latitude), MathCos(2 * p1.latitude)),
                           MathSin(dlam)), MathSin(dlam))
    IN  ArcKm(CentralAngle(a))

\* calculateDistance(point1, point2); coordinates are in units of 15 degrees, so a
\* difference of coordinates is its own half in units of 7.5 degrees.
calculateDistance(p1, p2) ==
    LET dphi == p2.latitude - p1.latitude
        dlam == p2.longitude - p1.longitude
        a == Times(MathSin(dphi), MathSin(dphi))
             + Times(Times(Times(MathCos(2 * p1.latitude), MathCos(2 * p2.latitude)),
                           MathSin(dlam)), MathSin(dlam))
    IN  ArcKm(CentralAngle(a))

\* Points of the 15-degree grid: both poles, the equator, and longitudes up to the
\* antimeridian on either side.
GridPoints ==
    [latitude : {0 - Pole, -3, 0, 2, Pole},
     longitude : {0 - 2 * Pole, 1 - 2 * Pole, 0, Pole, 2 * Pole - 1, 2 * Pole}]

\* The distance between the two points is taken in both directions.
Measure ==
    /\ forward = <<>>
    /\ forward' = <<calculateDistance(point1, point2)>>
    /\ backward' = <<calculateDistance(point2, point1)>>
    /\ UNCHANGED <<point1, point2, nearbyVars, limitVars, sessionVars, reviewVars, ledgerVars, bookingVars>>

InitDistance ==
    /\ point1 \in GridPoints
    /\ point2 \in GridPoints
    /\ forward = <<>>
    /\ backward = <<>>
    /\ InitNearbyIdle /\ InitLimitIdle /\ InitSessionIdle /\ InitReviewsIdle /\ InitLedgerIdle /\ InitBookingIdle

NextDistance == Measure

SpecDistance == InitDistance /\ [][NextDistance]_vars

(***************************************************************************)
(* Appointments: booking and cancelling a time slot of one doctor and day  *)
(*                                                                         *)
(* db.query runs each statement on its own (no transaction); a handler is  *)
(* suspended at every await, and other handlers run in between.            *)
(***************************************************************************)

\* Rows the appointments table holds at most.
MaxAppointments == 2
\* Appointment handlers that can be between two awaits at one time.
MaxHandlers == 2

\* doctor_availability.time_slot of the rows of the doctor and the day.
Slots == {"09:00", "10:00"}

\* An :id of the cancel route that is not a UUID (the route does not validate it).
NotUuid == 0

\* What PostgreSQL raises when a text parameter is compared with a uuid column and
\* is no uuid; db.query throws it.
InvalidUuid ==
    Thrown("error", 0, "invalid input syntax for type uuid", {}, "22P02")

\* SELECT ... FROM appointments WHERE id = $1 AND user_id = $2 AND status =
\* 'confirmed' returns a row.
OwnConfirmed(table, id, userId) ==
    id \in 1..Len(table) /\ table[id].user_id = userId /\ table[id].status = "confirmed"

\* What an appointment handler answered.
AptAnswer(kind, userId, target, sent) ==
    [kind |-> kind, user |-> userId, target |-> target, res |-> sent]

\* The 201 and 200 bodies of the two handlers.
Success(status, message) == Response(status, TRUE, message, {}, "")

\* The suspended handlers of one kind at one statement.
HandlersAt(kind, pc) == {f \in BagToSet(handlers) : f.kind = kind /\ f.pc = pc}

\* The suspended handlers with frame f resumed and suspended again as frame g.
Resumed(f, g) == (handlers (-) SetToBag({f})) (+) SetToBag({g})

\* POST /book: the request is valid and the handler selects the free slot row; no
\* row is 409, a row suspends the handler before the next statement.
BookCheck ==
    /\ BagCardinality(handlers) < MaxHandlers
    /\ \E u \in Users, slot \in Slots :
          IF slotBooked[slot]
          THEN /\ aptRes' = <<AptAnswer("book", u, slot,
                                        errorHandler(conflict("Time slot not available"),
                                                     NODE_ENV))>>
               /\ UNCHANGED handlers
          ELSE /\ handlers' = handlers (+) SetToBag({[kind |-> "book", user |-> u,
                                                      slot |-> slot, pc |-> "checked",
                                                      id |-> 0]})
               /\ aptRes' = <<>>
    /\ UNCHANGED <<slotBooked, appointments, ledgerVars, nearbyVars, limitVars, sessionVars, reviewVars,
                   distanceVars>>

\* POST /book: the doctor is found and the appointment is inserted as 'confirmed'.
BookInsert ==
    /\ Len(appointments) < MaxAppointments
    /\ \E f \in HandlersAt("book", "checked") :
          /\ appointments' = Append(appointments,
                                    [user_id |-> f.user, time_slot |-> f.slot,
                                     status |-> "confirmed"])
          /\ handlers' = Resumed(f, [f EXCEPT !.pc = "inserted", !.id = Len(appointments) + 1])
    /\ aptRes' = <<>>
    /\ UNCHANGED <<slotBooked, ledgerVars, nearbyVars, limitVars, sessionVars, reviewVars, distanceVars>>

\* POST /book: UPDATE doctor_availability SET is_booked = true.
BookMark ==
    /\ \E f \in HandlersAt("book", "inserted") :
          /\ slotBooked' = [slotBooked EXCEPT ![f.slot] = TRUE]
          /\ handlers' = Resumed(f, [f EXCEPT !.pc = "marked"])
    /\ aptRes' = <<>>
    /\ UNCHANGED <<appointments, ledgerVars, nearbyVars, limitVars, sessionVars, reviewVars, distanceVars>>

\* POST /book: UPDATE users SET points = points + 5, then the 201.
BookAward ==
    /\ \E f \in HandlersAt("book", "marked") :
          /\ usersPoints' = [usersPoints EXCEPT ![f.user] = @ + 5]
          /\ aptRes' = <<AptAnswer("book", f.user, f.slot, Success(201, "Appointment booked"))>>
          /\ handlers' = handlers (-) SetToBag({f})
    /\ UNCHANGED <<slotBooked, appointments, points_history, nearbyVars, limitVars, sessionVars, reviewVars,
                   distanceVars>>

\* PUT /:id/cancel: the handler looks the appointment up; no row is 400, and an id
\* that is no uuid makes the statement fail.
CancelLookup ==
    /\ BagCardinality(handlers) < MaxHandlers
    /\ \E u \in Users, id \in {NotUuid} \cup 1..MaxAppointments :
          IF id = NotUuid
          THEN /\ aptRes' = <<AptAnswer("cancel", u, id, errorHandler(InvalidUuid, NODE_ENV))>>
               /\ UNCHANGED handlers
          ELSE IF OwnConfirmed(appointments, id, u)
          THEN /\ handlers' = handlers (+) SetToBag({[kind |-> "cancel", user |-> u,
                                                      slot |-> appointments[id].time_slot,
                                                      pc |-> "found", id |-> id]})
               /\ aptRes' = <<>>
          ELSE /\ aptRes' = <<AptAnswer("cancel", u, id,
                                        errorHandler(badRequest("Appointment cannot be cancelled",
                                                                {}), NODE_ENV))>>
               /\ UNCHANGED handlers
    /\ UNCHANGED <<slotBooked, appointments, ledgerVars, nearbyVars, limitVars, sessionVars, reviewVars,
                   distanceVars>>

\* PUT /:id/cancel: UPDATE appointments SET status = 'cancelled' WHERE id = $2.
CancelUpdate ==
    /\ \E f \in HandlersAt("cancel", "found") :
          /\ appointments' = [appointments EXCEPT ![f.id].status = "cancelled"]
          /\ handlers' = Resumed(f, [f EXCEPT !.pc = "cancelled"])
    /\ aptRes' = <<>>
    /\ UNCHANGED <<slotBooked, ledgerVars, nearbyVars, limitVars, sessionVars, reviewVars, distanceVars>>

\* PUT /:id/cancel: UPDATE doctor_availability SET is_booked = false for the slot
\* read at the lookup, then the 200.
CancelFree ==
    /\ \E f \in HandlersAt("cancel", "cancelled") :
          /\ slotBooked' = [slotBooked EXCEPT ![f.slot] = FALSE]
          /\ aptRes' = <<AptAnswer("cancel", f.user, f.id,
                                   Success(200, "Appointment cancelled"))>>
          /\ handlers' = handlers (-) SetToBag({f})
    /\ UNCHANGED <<appointments, ledgerVars, nearbyVars, limitVars, sessionVars, reviewVars, distanceVars>>

InitBooking ==
    /\ slotBooked = [slot \in Slots |-> FALSE]
    /\ appointments = <<>>
    /\ handlers = EmptyBag
    /\ aptRes = <<>>
    /\ usersPoints = [u \in Users |-> 0]
    /\ points_history = <<>>
    /\ InitNearbyIdle /\ InitLimitIdle /\ InitSessionIdle /\ InitReviewsIdle /\ InitDistanceIdle

NextBooking ==
    \/ BookCheck \/ BookInsert \/ BookMark \/ BookAward
    \/ CancelLookup \/ CancelUpdate \/ CancelFree

SpecBooking == InitBooking /\ [][NextBooking]_vars

(***************************************************************************)
(* POST /api/auth/refresh-token and POST /api/auth/logout                  *)
(*                                                                         *)
(* Three versions of routes/auth.js exist: auth.js goes through the        *)
(* Database helper (Supabase), part_002 through the pg pool, part_001      *)
(* keeps no refresh tokens at all. Each statement runs on its own; a       *)
(* handler is suspended at each await.                                     *)
(***************************************************************************)

\* Auth handlers that can be suspended at one time.
MaxAuthHandlers == 2
\* The last second of the server's clock.
MaxSecond == 1

AuthRoutes == {"auth.js", "part_002", "part_001"}

\* Everything outside the auth routes; the clock is the server's.
beyondAuth == <<retryVars, refreshVars, nearbyVars, rateLimit, awaiting, answer, recent,
                reviewVars, ledgerVars, bookingVars, distanceVars>>

\* generateTokens(userId) called in second t: jwt.sign of a fixed payload with iat
\* in whole seconds, so the same user and second give the same two strings.
generateTokens(userId, t) ==
    [accessToken  |-> [userId |-> userId, type |-> "access", iat |-> t],
     refreshToken |-> [userId |-> userId, type |-> "refresh", iat |-> t]]

\* createError.unauthorized(message)
unauthorized(message) == Thrown("ApiError", 401, message, {}, "")

\* What .single() puts in result.error unless exactly one row matches; executeQuery
\* throws it.
NotSingle ==
    Thrown("PostgrestError", 0, "JSON object requested, multiple (or no) rows returned",
           {}, "PGRST116")

\* SELECT id FROM refresh_tokens WHERE token = $1 AND user_id = $2: the number of rows.
TokenRows(table, token) ==
    LET row == [user_id |-> token.userId, token |-> token]
    IN  IF row \in DOMAIN table THEN table[row] ELSE 0

\* DELETE FROM refresh_tokens WHERE token = $1
DeleteToken(table, token) ==
    [row \in {r \in DOMAIN table : r.token # token} |-> table[row]]

\* DELETE FROM refresh_tokens WHERE user_id = $1
DeleteUser(table, userId) ==
    [row \in {r \in DOMAIN table : r.user_id # userId} |-> table[row]]

\* The frame of a refresh handler; after, barred and tainted record what was true
\* of the presented token when the request arrived or while it was in flight.
RefreshFrame(token) ==
    [kind |-> "refresh", pc |-> "select", user |-> token.userId, token |-> <<token>>,
     issued |-> <<>>, after |-> token \in redeemed, barred |-> token \in revoked,
     tainted |-> FALSE]

LogoutFrame(userId) ==
    [kind |-> "logout", pc |-> "delete", user |-> userId, token |-> <<>>,
     issued |-> <<>>, after |-> FALSE, barred |-> FALSE, tainted |-> FALSE]

\* The answer of a handler: its frame, the response, and whether the presented
\* token had been redeemed before this answer.
AuthAnswer(f, sent) ==
    f @@ [res |-> sent, again |-> f.token # <<>> /\ f.token[1] \in redeemed]

\* res.json({ success: true, token, refreshToken })
Refreshed(tokens) ==
    [status |-> 200, success |-> TRUE, token |-> tokens.accessToken,
     refreshToken |-> tokens.refreshToken]

\* The suspended handlers of one kind at one statement.
AuthHandlersAt(kind, pc) == {f \in BagToSet(authHandlers) : f.kind = kind /\ f.pc = pc}

\* The refresh tokens a logout of userId covers: those handed out so far.
TokensOf(userId) == {t \in issuedTokens : t.userId = userId}

\* The suspended handlers once a logout of userId has completed: its own frame f
\* is gone, the user's refreshes in flight are marked.
AfterLogout(f, userId) ==
    LET rest == authHandlers (-) SetToBag({f})
        mark(g) == IF g.kind = "refresh" /\ g.user = userId
                   THEN [g EXCEPT !.tainted = TRUE] ELSE g
    IN  BagOfAll(mark, rest)

\* POST /refresh-token with a token the server once signed: jwt.verify passes and
\* the type is 'refresh'. part_001 answers at once with a new pair; the others
\* suspend at the SELECT.
RefreshArrives ==
    /\ \E token \in issuedTokens :
          LET f == RefreshFrame(token)
              tokens == generateTokens(token.userId, now)
          IN  IF authRoutes = "part_001"
              THEN /\ authRes' = <<AuthAnswer([f EXCEPT !.issued = <<tokens.refreshToken>>],
                                              Refreshed(tokens))>>
                   /\ issuedTokens' = issuedTokens \cup {tokens.refreshToken}
                   /\ redeemed' = redeemed \cup {token}
                   /\ revoked' = IF f.barred THEN revoked \cup {tokens.refreshToken}
                                 ELSE revoked
                   /\ UNCHANGED authHandlers
              ELSE /\ BagCardinality(authHandlers) < MaxAuthHandlers
                   /\ authHandlers' = authHandlers (+) SetToBag({f})
                   /\ authRes' = <<>>
                   /\ UNCHANGED <<issuedTokens, redeemed, revoked>>
    /\ UNCHANGED <<now, authRoutes, refresh_tokens, beyondAuth>>

\* The SELECT returns. auth.js asks for .single(): anything but one row is thrown
\* by executeQuery and answered by errorHandler; part_002 answers 401 for no row.
RefreshSelect ==
    /\ \E f \in AuthHandlersAt("refresh", "select") :
          LET n == TokenRows(refresh_tokens, f.token[1])
              left == authHandlers (-) SetToBag({f})
          IN  IF authRoutes = "auth.js" /\ n # 1
              THEN /\ authRes' = <<AuthAnswer(f, errorHandler(NotSingle, NODE_ENV))>>
                   /\ authHandlers' = left
              ELSE IF n = 0
              THEN /\ authRes' = <<AuthAnswer(f, errorHandler(
                                      unauthorized("Refresh token expired or revoked"),
                                      NODE_ENV))>>
                   /\ authHandlers' = left
              ELSE /\ authHandlers' = left (+) SetToBag({[f EXCEPT !.pc = "delete"]})
                   /\ authRes' = <<>>
    /\ UNCHANGED <<now, authRoutes, refresh_tokens, issuedTokens, redeemed, revoked,
                   beyondAuth>>

\* The DELETE of the presented token returns; generateTokens runs and the handler
\* suspends at the INSERT.
RefreshDelete ==
    /\ \E f \in AuthHandlersAt("refresh", "delete") :
          /\ refresh_tokens' = DeleteToken(refresh_tokens, f.token[1])
          /\ authHandlers' = (authHandlers (-) SetToBag({f})) (+)
                SetToBag({[f EXCEPT !.pc = "insert",
                                    !.issued = <<generateTokens(f.user, now).refreshToken>>]})
    /\ authRes' = <<>>
    /\ UNCHANGED <<now, authRoutes, issuedTokens, redeemed, revoked, beyondAuth>>

\* The INSERT of the new refresh token returns and the handler answers 200.
RefreshInsert ==
    /\ \E f \in AuthHandlersAt("refresh", "insert") :
          LET new == f.issued[1]
          IN  /\ refresh_tokens' = refresh_tokens (+)
                                      SetToBag({[user_id |-> f.user, token |-> new]})
              /\ authHandlers' = authHandlers (-) SetToBag({f})
              /\ authRes' = <<AuthAnswer(f, Refreshed(
                                 [accessToken |-> [new EXCEPT !.type = "access"],
                                  refreshToken |-> new]))>>
              /\ issuedTokens' = issuedTokens \cup {new}
              /\ redeemed' = redeemed \cup {f.token[1]}
              /\ revoked' = IF f.barred \/ f.tainted THEN revoked \cup {new} ELSE revoked
    /\ UNCHANGED <<now, authRoutes, beyondAuth>>

\* POST /logout of an authenticated user. part_001 signs out of Supabase Auth and
\* answers; the others suspend at the DELETE.
LogoutArrives ==
    /\ \E u \in Users :
          LET f == LogoutFrame(u)
          IN  IF authRoutes = "part_001"
              THEN /\ authRes' = <<AuthAnswer(f, Success(200, "Logged out successfully"))>>
                   /\ revoked' = revoked \cup TokensOf(u)
                   /\ UNCHANGED authHandlers
              ELSE /\ BagCardinality(authHandlers) < MaxAuthHandlers
                   /\ authHandlers' = authHandlers (+) SetToBag({f})
                   /\ authRes' = <<>>
                   /\ UNCHANGED revoked
    /\ UNCHANGED <<now, authRoutes, refresh_tokens, issuedTokens, redeemed, beyondAuth>>

\* The DELETE of the user's refresh tokens returns and the handler answers 200.
LogoutDelete ==
    /\ \E f \in AuthHandlersAt("logout", "delete") :
          /\ refresh_tokens' = DeleteUser(refresh_tokens, f.user)
          /\ authHandlers' = AfterLogout(f, f.user)
          /\ authRes' = <<AuthAnswer(f, Success(200, "Logged out successfully"))>>
          /\ revoked' = revoked \cup TokensOf(f.user)
    /\ UNCHANGED <<now, authRoutes, issuedTokens, redeemed, beyondAuth>>

\* A second passes on the server.
AuthTick ==
    /\ now < MaxSecond
    /\ now' = now + 1
    /\ authRes' = <<>>
    /\ UNCHANGED <<authRoutes, refresh_tokens, authHandlers, issuedTokens, redeemed, revoked,
                   beyondAuth>>

\* Every user has logged in in second 0: one refresh token each, stored and handed
\* out.
InitAuth ==
    /\ authRoutes \in AuthRoutes
    /\ refresh_tokens = SetToBag({[user_id |-> u, token |-> generateTokens(u, 0).refreshToken] :
                                     u \in Users})
    /\ authHandlers = EmptyBag
    /\ authRes = <<>>
    /\ issuedTokens = {generateTokens(u, 0).refreshToken : u \in Users}
    /\ redeemed = {}
    /\ revoked = {}
    /\ now = 0 /\ rateLimit = <<>> /\ awaiting = <<>> /\ answer = <<>> /\ recent = <<>>
    /\ InitNearbyIdle
    /\ InitRetryIdle /\ InitRefreshIdle /\ InitBeyondSession

NextAuth ==
    \/ RefreshArrives \/ RefreshSelect \/ RefreshDelete \/ RefreshInsert
    \/ LogoutArrives \/ LogoutDelete \/ AuthTick

SpecAuth == InitAuth /\ [][NextAuth]_vars

(***************************************************************************)
(* Claims about the radius-unlock policy (checked under SpecPolicy)        *)
(***************************************************************************)

\* The tier of RADIUS_LEVELS with the highest threshold that p meets.
HighestTier(p) ==
    LET met == {i \in 1..Len(RADIUS_LEVELS) : RADIUS_LEVELS[i].points <= p}
    IN  RADIUS_LEVELS[CHOOSE i \in met : \A j \in met : RADIUS_LEVELS[j].points <= RADIUS_LEVELS[i].points]

\* C2: for every non-negative points total the policy answers with the radius (and
\* label) of the highest tier of RADIUS_LEVELS whose threshold is <= points; the
\* unlimited tier is the radius -1.
C2_HighestTierReturned ==
    userPointsOf(user) >= 0 =>
        /\ radiusInfo.radius = HighestTier(userPointsOf(user)).radius
        /\ radiusInfo.label = HighestTier(userPointsOf(user)).label
        /\ radiusInfo.points = HighestTier(userPointsOf(user)).points

C2_Witness ==
    /\ user # <<>>
    /\ user[1].points = 999
    /\ radiusInfo.radius = 5000

C4_NegativePointsRejected ==
    /\ userPointsOf(user) < 0 => radiusInfo.threw
    /\ userPointsOf(user) = 0 => (~radiusInfo.threw /\ radiusInfo.radius = 500)

(***************************************************************************)
(* Claims about the nearby query (checked under Spec)                      *)
(***************************************************************************)

\* The radius the request asked for (1000 when it named none).
RequestedRadius(q) == parseInt(OrDefault(q.radius, <<1, 0, 0, 0>>))

\* min(requested radius, radius unlocked by the points), "unlimited" capping nothing.
EffectiveRadius(q, points) ==
    IF getUnlockedRadius(points).radius = -1 THEN RequestedRadius(q)
    ELSE Min(RequestedRadius(q), getUnlockedRadius(points).radius)

\* C1 as stated: for every request of a known user that reaches the repository, the
\* radius_meters passed to get_nearby_places is min(requested radius, radius unlocked
\* by the user's points).
C1_RadiusClampedToUnlock ==
    (rpc # <<>> /\ req[1].user # <<>>) =>
        rpc[1].radius_meters = EffectiveRadius(req[1].query, req[1].user[1].points)

C6_OnlyVerifiedReturned ==
    /\ places # <<>> =>
        \A i \in 1..Len(places[1]) : placesTable[places[1][i].id].is_verified
    /\ appResult # <<>> =>
        \A i \in 1..Len(appResult[1].data) : placesTable[appResult[1].data[i].id].is_verified

\* Ids of the verified places within the requested radius that have the requested
\* category, whatever their open status.
MatchesIgnoringOpen(q) ==
    {i \in 1..Len(placesTable) :
        /\ MetersPerMilliDeg * Abs(placesTable[i].lat - q.lat) <= RequestedRadius(q)
        /\ placesTable[i].is_verified
        /\ (q.category = Undefined \/ placesTable[i].category = q.category)}

C8_SortedWithTieBreaks ==
    places # <<>> =>
        \A i, j \in 1..Len(places[1]) : i < j =>
            \/ places[1][i].distance < places[1][j].distance
            \/ /\ places[1][i].distance = places[1][j].distance
               /\ \/ places[1][i].rating > places[1][j].rating
                  \/ /\ places[1][i].rating = places[1][j].rating
                     /\ places[1][i].created_at < places[1][j].created_at

\* C9 as stated: the same request sent twice against the unchanged table obtains the
\* same places in the same order.
C9_SameRequestSameRows ==
    (earlier # <<>> /\ places # <<>>) => places[1] = earlier[1]

\* C10 as stated: whenever the repository call of a request succeeds, the response
\* carries meta.total, the number of places matching the radius and the filters
\* before LIMIT and OFFSET.
C10_TotalCountsAllMatches ==
    places # <<>> =>
        /\ res[1].meta # <<>>
        /\ res[1].meta[1].total =
              Cardinality({i \in 1..Len(placesTable) :
                              NearbyWhere(TableRow(placesTable, i), rpc[1])})

\* The fields of a query that lie outside the ranges the route documents: lat in
\* [-90, 90], lng in [-180, 180], radius in [100, 50000], category one of the four,
\* limit in [1, 100], offset not negative.
Offending(q) ==
    (IF q.lat < -90000 \/ q.lat > 90000 THEN {"lat"} ELSE {})
    \cup (IF q.lng < -180000 \/ q.lng > 180000 THEN {"lng"} ELSE {})
    \cup (IF q.radius # <<>> /\ (parseInt(q.radius) < 100 \/ parseInt(q.radius) > 50000)
          THEN {"radius"} ELSE {})
    \cup (IF q.category # Undefined /\ q.category \notin {"food", "health", "vet", "admin"}
          THEN {"category"} ELSE {})
    \cup (IF q.limit # <<>> /\ (parseInt(q.limit) < 1 \/ parseInt(q.limit) > 100)
          THEN {"limit"} ELSE {})
    \cup (IF q.offset # <<>> /\ parseInt(q.offset) < 0 THEN {"offset"} ELSE {})

C12_EmptyResultIsSuccess ==
    (places # <<>> /\ Len(places[1]) = 0) =>
        /\ res[1].status = 200
        /\ res[1].success
        /\ res[1].data = <<>>
        /\ res[1].meta = <<[total |-> 0, limit |-> rpc[1].result_limit,
                            offset |-> rpc[1].result_offset]>>

\* The error texts of the storage backend.
BackendErrorTexts == {err.message : err \in RpcErrors}

\* C13 as stated: when the repository call fails the response is a 500 or 503 with
\* success false and a message that is not the storage backend's error text.
C13_BackendErrorNotLeaked ==
    (rpc # <<>> /\ places = <<>>) =>
        /\ res[1].status \in {500, 503}
        /\ ~res[1].success
        /\ res[1].message \notin BackendErrorTexts

\* What a /nearby request with query q is answered when it is the only request the
\* server ever gets: 400 if a field is invalid, else the answer to a failed rpc or
\* the answer the handler gives after the rpc returned.
SoloResponses(q, env) ==
    IF ValidationErrors(q) # {}
    THEN {errorHandler(badRequest("Validation failed", ValidationErrors(q)), env)}
    ELSE {errorHandler(err, env) : err \in RpcErrors \cup {ReferenceError}}

C15_RatingIsMeanOfReviews ==
    \A p \in ReviewPlaces :
        LET ids == ReviewsOf(reviews, p)
            n   == Cardinality(ids)
            sum == SumRating(reviews, ids)
            gap == placeStats[p].rating * n - 10 * sum
        IN  /\ placeStats[p].review_count = n
            /\ n > 0 => (2 * gap <= n /\ 2 * gap >= 0 - n)

\* C19 as stated: when POST /:id/reviews requests of one user for one place have
\* been answered, each was answered 201 or 409, at most one review row of that user
\* for that place is stored, and the user holds the review points (3, or 5 with
\* photos), awarded once.
C19_OneReviewOneAward ==
    (reviewRes # <<>> /\ reviewRes[1].rating \in 1..5) =>
        /\ reviewRes[1].res.status \in {201, 409}
        /\ Cardinality({id \in ReviewsOf(reviews, reviewRes[1].place) :
                            reviews[id][1].user_id = reviewRes[1].user}) = 1
        /\ usersPoints[reviewRes[1].user] \in {3, 5}

(***************************************************************************)
(* Claims about calculateDistance (checked under SpecDistance)             *)
(***************************************************************************)

\* C16: calculateDistance(a, b) equals calculateDistance(b, a) for every pair of
\* points, pairs across the antimeridian and pairs with a pole included.
C16_DistanceSymmetric ==
    forward # <<>> => forward = backward

\* Two points of the equator 15 degrees either side of the antimeridian: 30
\* degrees of arc apart in both directions.
C16_Witness ==
    /\ forward # <<>>
    /\ point1 = [latitude |-> 0, longitude |-> 2 * Pole - 1]
    /\ point2 = [latitude |-> 0, longitude |-> 1 - 2 * Pole]
    /\ forward[1] = ArcKm(4)
    /\ backward[1] = ArcKm(4)

(***************************************************************************)
(* Claims about appointments and points (checked under SpecBooking)        *)
(***************************************************************************)

\* The confirmed appointments of a time slot.
ConfirmedFor(slot) ==
    {i \in 1..Len(appointments) :
        appointments[i].time_slot = slot /\ appointments[i].status = "confirmed"}

\* C17 as stated: under any interleaving of booking requests for one slot, at most
\* one appointment with status 'confirmed' exists for the slot (at most one of the
\* requests is answered 201, the others 409).
C17_OneConfirmedPerSlot ==
    \A slot \in Slots : Cardinality(ConfirmedFor(slot)) <= 1

\* C18 as stated: a cancel request answered 200 names an appointment of the caller, which is
\* then 'cancelled' with its slot's is_booked false; a cancel request answered
\* otherwise is answered 400, names no confirmed appointment of the caller, and
\* leaves every appointment and every slot as it was.
C18_CancelOnlyOwnConfirmed ==
    [][(aptRes' # <<>> /\ aptRes'[1].kind = "cancel") =>
          IF aptRes'[1].res.status = 200
          THEN /\ aptRes'[1].target \in 1..Len(appointments')
               /\ appointments'[aptRes'[1].target].user_id = aptRes'[1].user
               /\ appointments'[aptRes'[1].target].status = "cancelled"
               /\ ~slotBooked'[appointments'[aptRes'[1].target].time_slot]
          ELSE /\ aptRes'[1].res.status = 400
               /\ appointments' = appointments
               /\ slotBooked' = slotBooked
               /\ ~(/\ aptRes'[1].target \in 1..Len(appointments)
                    /\ appointments[aptRes'[1].target].user_id = aptRes'[1].user
                    /\ appointments[aptRes'[1].target].status = "confirmed")]_vars

\* The points a user's rows of points_history add up to.
RECURSIVE LedgerSum(_, _)
LedgerSum(history, userId) ==
    IF Len(history) = 0 THEN 0
    ELSE (IF Head(history).user_id = userId THEN Head(history).points ELSE 0)
         + LedgerSum(Tail(history), userId)

\* C20 as stated: after any sequence of point awards, users.points of every user
\* is the sum of the points recorded for the user in points_history.
C20_PointsMatchLedger ==
    \A u \in Users : usersPoints[u] = LedgerSum(points_history, u)

(***************************************************************************)
(* Claims about the rate limiter's counter (checked under SpecLimit)       *)
(***************************************************************************)

\* A request of ip reaches the limiter in this step.
Arrives(ip) == now' = now /\ recent'[ip] # recent[ip]

\* The request that arrived in this step was answered 429 by the limiter.
Refused == answer' # <<>> /\ answer'[1].res.status = 429

\* C21: per client, the counter only restarts once its window has run out
\* (the cleanup only deletes entries whose window has run out), a request the
\* limiter passes on adds exactly one to it, a request arriving with the counter
\* at maxRequests is answered 429 and leaves it as it is, and so the counter never
\* exceeds maxRequests and X-RateLimit-Remaining is never negative.
C21_AtMostMaxRequestsPerWindow ==
    [][\A ip \in Ips :
          LET before == rateLimit[ip]
              over   == before = <<>> \/ now - before[1].startTime > WindowSeconds
              base   == IF over THEN 0 ELSE before[1].count
          IN  IF Arrives(ip)
              THEN LET after == rateLimit'[ip][1]
                   IN  /\ after.startTime = (IF over THEN now ELSE before[1].startTime)
                       /\ Refused <=> base >= MaxRequests
                       /\ after.count = (IF Refused THEN base ELSE base + 1)
                       /\ after.count <= MaxRequests
                       /\ RateLimitHeaders(after).remaining >= 0
              ELSE rateLimit'[ip] # before =>
                       /\ rateLimit'[ip] = <<>>
                       /\ before # <<>> /\ now - before[1].startTime > WindowSeconds]_vars

\* A client whose counter stands at maxRequests has just been answered 429, one
\* second into its window.
C21_Witness ==
    /\ answer # <<>>
    /\ answer[1].res.status = 429
    /\ rateLimit[answer[1].ip] # <<>>
    /\ rateLimit[answer[1].ip][1].count = MaxRequests
    /\ now = rateLimit[answer[1].ip][1].startTime + 1

(***************************************************************************)
(* Claims about retrying after a 429 (checked under SpecRetry)             *)
(***************************************************************************)

\* C22 as stated: a client that was answered 429 with retryAfter = r and sends its
\* next request r seconds later, or any time after that, is not answered 429,
\* whether or not the cleanup has run in between.
C22_AdmittedAfterRetryAfter ==
    [][\A ip \in Ips :
          (Arrives(ip) /\ Due(ip)) => ~Refused]_vars

(***************************************************************************)
(* Claims about the API client's token refresh                             *)
(***************************************************************************)

\* The requests parked in failedRequestsQueue.
Parked == {failedRequestsQueue[i] : i \in 1..Len(failedRequestsQueue)}

\* At most one POST to /auth/refresh-token is in flight; with isRefreshing false
\* nothing is parked.
OneRefreshNoneParked ==
    /\ Cardinality({c \in CallIds : calls[c].pc = "refreshing"}) <= 1
    /\ \A c \in CallIds : calls[c].pc = "queued" <=> c \in Parked
    /\ ~isRefreshing => failedRequestsQueue = <<>>

\* A 401 that arrives while a refresh is in progress starts no refresh, and parks
\* the request unless it is the re-sent one of an earlier refresh; the step that
\* ends a refresh re-sends every parked request with the new token if the refresh
\* succeeded and rejects every one if it failed.
ParkedThenSettled ==
    /\ \A c \in CallIds :
          (isRefreshing /\ calls[c].pc = "sent" /\ calls'[c].pc \notin {"sent", "done"}) =>
              /\ calls'[c].pc # "getItem"
              /\ ~calls[c].retry => (calls'[c].pc = "queued" /\ c \in Parked')
    /\ (isRefreshing /\ ~isRefreshing') =>
          IF \E c \in CallIds : calls[c].pc = "setRefresh" /\ calls'[c].pc = "sent"
          THEN \A q \in Parked :
                  /\ calls'[q].pc = "sent"
                  /\ calls'[q].sends = calls[q].sends + 1
                  /\ calls'[q].auth = storage'.token
                  /\ storage'.token # storage.refreshToken
          ELSE \A q \in Parked : calls'[q].pc = "failed"

C24_ResentAtMostOnce ==
    [][\A c \in CallIds :
          /\ calls'[c].sends <= 2
          /\ (calls[c].pc = "sent" /\ calls[c].sends = 2) =>
                 calls'[c].pc \in {"sent", "done", "failed"}]_vars

(***************************************************************************)
(* Claims about refresh tokens and logout (checked under SpecAuth)         *)
(***************************************************************************)

\* C25 as stated: a refresh token is redeemed at most once. A request that presents
\* a token for which a refresh had already succeeded when it arrived is answered
\* 401, and no refresh succeeds for a token a refresh has succeeded for before,
\* however the requests interleave.
C25_RedeemedAtMostOnce ==
    (authRes # <<>> /\ authRes[1].kind = "refresh") =>
        /\ authRes[1].after => authRes[1].res.status = 401
        /\ authRes[1].res.status = 200 => ~authRes[1].again

\* C26 as stated: once a logout of a user has completed, /refresh-token accepts no
\* refresh token handed to that user before it, nor one that a refresh in flight
\* during the logout (or a refresh of such a token) produced.
C26_LogoutRevokes ==
    (authRes # <<>> /\ authRes[1].kind = "refresh" /\ authRes[1].barred) =>
        authRes[1].res.status # 200

====
